---- MODULE Spec2Model ----
(***************************************************************************)
(* Model of run.py: a paginated reader (PLOSAPIReader) feeds the `source`  *)
(* queue, DOAJValidator threads enrich articles and put them on the `sink` *)
(* queue, Counters threads fold them into three shared collections.Counter *)
(* objects, and the main thread joins, stops both pools with None          *)
(* sentinels and writes the three csv files.                               *)
(*                                                                         *)
(* Conventions.  A task is the tuple <<article_id, article>>; None is the  *)
(* empty tuple, so that `not task` is Len(task) = 0.  A missing dict entry *)
(* and an empty string are both written "" (both are falsy in the code).   *)
(* A Counter is a dict: a sequence of <<key, count>> in insertion order.   *)
(***************************************************************************)
EXTENDS Integers, Sequences, FiniteSets, TLC

\* ---------------------------------------------------------------- bounds
\* articles the primary API serves in a run (so at most as many pages)
MaxRecords == 2
\* non-200 answers in a row of the primary API, and non-200 answers of the
\* secondary API in a run
MaxFail == 1
\* calls of next(reader) answered 200 when the reader is driven on its own
MaxCalls == 5
\* largest count of an entry when save_csv is driven on its own
MaxCount == 2

\* ------------------------------------------------------ program constants
nb_workers == 2
nb_counters == 2
ReaderStep == 100
PageStep == 100

Workers == 1..nb_workers
CounterThreads == 1..nb_counters

\* ------------------------------------------------------------ the two APIs
None == <<>>

Doc(id, journal, author_display) ==
    [id |-> id, journal |-> journal, author_display |-> author_display,
     doaj_id |-> "", doaj_authors |-> <<>>]

DocA == Doc("d1", "J1", <<"p1">>)
DocB == Doc("d2", "", <<>>)
DocC == Doc("", "J1", <<"p1">>)

\* the `docs` lists the primary API may answer with
Batches == { <<DocA>>, <<DocC, DocB>> }

Author(name, affiliation) == [name |-> name, affiliation |-> affiliation]

DoajArticle(id, author) == [id |-> id, bibjson |-> [author |-> author]]

MatchFull == DoajArticle("j1", <<Author("a1", "x1"), Author("", "x1")>>)
MatchNoAff == DoajArticle("j2", <<Author("a1", "")>>)
MatchBare == DoajArticle("j3", <<>>)

Dois == {"d1", "d2"}

\* the `results` list the secondary API holds for each doi
DoajDatabases ==
    { [d \in Dois |-> IF d = "d1" THEN <<MatchFull>> ELSE <<MatchBare>>],
      [d \in Dois |-> IF d = "d1" THEN <<MatchBare>> ELSE <<MatchNoAff, MatchBare>>],
      [d \in Dois |-> IF d = "d1" THEN <<>> ELSE <<MatchFull>>] }

StatusCodes == {200, 429, 500}

\* ------------------------------------------------------------ queue.Queue
\* a queue.Queue is its deque and its unfinished_tasks count
NewQueue == [queue |-> <<>>, unfinished_tasks |-> 0]

QPut(q, item) ==
    [queue |-> Append(q.queue, item), unfinished_tasks |-> q.unfinished_tasks + 1]

QGet(q) == [q EXCEPT !.queue = Tail(q.queue)]

\* mutant: task_done that does not count
QTaskDoneLost(q) == q

QTaskDone(q) == [q EXCEPT !.unfinished_tasks = q.unfinished_tasks - 1]

\* mutant: join that does not wait
QJoinReturnsAlways(q) == TRUE

QJoinReturns(q) == q.unfinished_tasks = 0

IsNone(task) == Len(task) = 0


\* ------------------------------------------------------ collections.Counter
HasKey(counter, key) == \E i \in 1..Len(counter) : counter[i][1] = key

KeyIndex(counter, key) == CHOOSE i \in 1..Len(counter) : counter[i][1] = key

\* self.get(elem, 0)
CounterGet(counter, key) ==
    IF HasKey(counter, key) THEN counter[KeyIndex(counter, key)][2] ELSE 0

\* self[elem] = value : a new key goes last, an old key keeps its place
CounterSet(counter, key, value) ==
    IF HasKey(counter, key)
    THEN [counter EXCEPT ![KeyIndex(counter, key)] = <<key, value>>]
    ELSE Append(counter, <<key, value>>)

\* Counter.update(mapping) with the mapping being the Counter itself:
\* for elem, count in iterable.items(): self[elem] = count + self.get(elem, 0)
CounterUpdateSelf(counter) ==
    [i \in 1..Len(counter) |-> <<counter[i][1], counter[i][2] + counter[i][2]>>]

RECURSIVE CounterTotal(_)
CounterTotal(counter) ==
    IF counter = <<>> THEN 0 ELSE counter[1][2] + CounterTotal(Tail(counter))

\* sorted(items, key=itemgetter(1), reverse=True): stable, descending by count
InsertByCount(rows, item) ==
    LET before == { i \in 1..Len(rows) : rows[i][2] >= item[2] }
        n == Cardinality(before)
    IN  SubSeq(rows, 1, n) \o <<item>> \o SubSeq(rows, n + 1, Len(rows))

RECURSIVE SortedByCount(_)
SortedByCount(items) ==
    IF items = <<>> THEN <<>>
    ELSE InsertByCount(SortedByCount(SubSeq(items, 1, Len(items) - 1)), items[Len(items)])

\* mutant: the entries are written in the Counter's own order
MostCommonInsertionOrder(counter) == counter

most_common(counter) == SortedByCount(counter)

\* save_csv: one row list(k) + [v] per entry of most_common()
save_csv(counter, filename) ==
    [filename |-> filename,
     rows |-> [i \in 1..Len(counter) |->
                 most_common(counter)[i][1] \o <<most_common(counter)[i][2]>>]]

\* --------------------------------------------------------- DOAJValidator
\* validate_and_link as a function of the task, the status code and the
\* `results` of the answer: what is put on the sink and on the source
\* mutant: a matched article is forwarded and also put back on the source
ValidateAndLinkRequeueAndForward(task, status, results) ==
    LET article == task[2]
    IN  IF article.id = "" THEN [sink |-> <<>>, source |-> <<>>]
        ELSE IF status = 200 /\ results # <<>>
        THEN [sink |-> << <<task[1], [article EXCEPT !.doaj_id = results[1].id,
                                        !.doaj_authors = results[1].bibjson.author]>> >>,
              source |-> <<task>>]
        ELSE IF status = 200 THEN [sink |-> <<>>, source |-> <<>>]
        ELSE [sink |-> <<>>, source |-> <<task>>]

\* mutant: a non-200 answer skips the article instead of putting it back
ValidateAndLinkNoRequeue(task, status, results) ==
    LET article == task[2]
    IN  IF article.id = "" THEN [sink |-> <<>>, source |-> <<>>]
        ELSE IF status = 200 /\ results # <<>>
        THEN [sink |-> << <<task[1], [article EXCEPT !.doaj_id = results[1].id,
                                        !.doaj_authors = results[1].bibjson.author]>> >>,
              source |-> <<>>]
        ELSE [sink |-> <<>>, source |-> <<>>]

\* mutant: only a 429 answer puts the task back, another failure skips it
ValidateAndLinkDropOnError(task, status, results) ==
    LET article == task[2]
    IN  IF article.id = "" THEN [sink |-> <<>>, source |-> <<>>]
        ELSE IF status = 200 /\ results # <<>>
        THEN [sink |-> << <<task[1], [article EXCEPT !.doaj_id = results[1].id,
                                        !.doaj_authors = results[1].bibjson.author]>> >>,
              source |-> <<>>]
        ELSE IF status = 429 THEN [sink |-> <<>>, source |-> <<task>>]
        ELSE [sink |-> <<>>, source |-> <<>>]

\* mutant: an article without a match is forwarded as it is
ValidateAndLinkForwardUnmatched(task, status, results) ==
    LET article == task[2]
    IN  IF article.id = "" THEN [sink |-> <<>>, source |-> <<>>]
        ELSE IF status = 200 /\ results # <<>>
        THEN [sink |-> << <<task[1], [article EXCEPT !.doaj_id = results[1].id,
                                        !.doaj_authors = results[1].bibjson.author]>> >>,
              source |-> <<>>]
        ELSE IF status = 200 THEN [sink |-> <<task>>, source |-> <<>>]
        ELSE [sink |-> <<>>, source |-> <<task>>]

validate_and_link(task, status, results) ==
    LET article_id == task[1]
        article == task[2]
        doi == article.id
    IN  IF doi # ""
        THEN IF status = 200
             THEN IF results # <<>>
                  THEN LET doaj_article == results[1]
                       IN  [sink |-> << <<article_id,
                                  [article EXCEPT !.doaj_id = doaj_article.id,
                                       !.doaj_authors = doaj_article.bibjson.author]>> >>,
                            source |-> <<>>]
                  ELSE [sink |-> <<>>, source |-> <<>>]
             ELSE IF status = 429
             THEN [sink |-> <<>>, source |-> <<task>>]
             ELSE [sink |-> <<>>, source |-> <<task>>]
        ELSE [sink |-> <<>>, source |-> <<>>]

\* --------------------------------------------------------------- Counters
RECURSIVE AuthorKeys(_, _, _)
AuthorKeys(doaj_authors, doaj_id, plos_id) ==
    IF doaj_authors = <<>> THEN <<>>
    ELSE (IF doaj_authors[1].name # ""
          THEN << <<doaj_authors[1].name, doaj_id, plos_id>> >> ELSE <<>>)
         \o AuthorKeys(Tail(doaj_authors), doaj_id, plos_id)

RECURSIVE DepKeys(_, _, _)
DepKeys(doaj_authors, doaj_id, plos_id) ==
    IF doaj_authors = <<>> THEN <<>>
    ELSE (IF doaj_authors[1].affiliation # ""
          THEN << <<doaj_authors[1].affiliation, doaj_id, plos_id>> >> ELSE <<>>)
         \o DepKeys(Tail(doaj_authors), doaj_id, plos_id)

\* lines 151-171 of update_counters: the three local lists
UpdateCountersLocals(task) ==
    LET article == task[2]
        doaj_authors == article.doaj_authors
        doaj_id == article.doaj_id
        plos_id == article.id
    IN  [authors |-> IF doaj_authors # <<>>
                     THEN AuthorKeys(doaj_authors, doaj_id, plos_id)
                     ELSE [i \in 1..Len(article.author_display) |->
                             <<article.author_display[i], doaj_id, plos_id>>],
         deps |-> IF doaj_authors # <<>>
                  THEN DepKeys(doaj_authors, doaj_id, plos_id) ELSE <<>>,
         journals |-> << <<article.journal, doaj_id, plos_id>> >>]

NoLocals == [authors |-> <<>>, deps |-> <<>>, journals |-> <<>>]


\* ------------------------------------------------------------------ state
VARIABLES
    doaj,          \* the secondary API's content: doi -> results
    reader_start,  \* PLOSAPIReader._start
    pollFails,     \* non-200 answers of the primary API since its last 200
    doajFails,     \* non-200 answers of the secondary API so far
    readerLog,     \* history: the last call of PLOSAPIReader.__next__
    dpc,           \* where the main thread is
    page,          \* main: page
    articles,      \* main: the batch being enumerated
    idx,           \* main: enumerate index, range index of the stop loops
    source,        \* queue.Queue between main and the DOAJValidator threads
    sink,          \* queue.Queue between DOAJValidator and Counters threads
    wpc,           \* DOAJValidator thread -> where it is
    wtask,         \* DOAJValidator thread -> the task it holds
    cpc,           \* Counters thread -> where it is
    ctask,         \* Counters thread -> the task it holds
    clocals,       \* Counters thread -> what is left of its local lists
    cread,         \* Counters thread -> <<count>> read and not yet written back
    authors,       \* the shared Counter objects
    departments,
    journals,
    files,         \* the csv files written so far
    fetched,       \* history: article_id -> the article as main put it
    forwarded,     \* history: article_id -> times put on the sink
    dropped,       \* history: article_id -> times skipped by validate_and_link
    requeued,      \* history: article_id -> times put back on the source
    folded,        \* history: article_id -> calls of update_counters begun
    noneGot,       \* history: sentinels dequeued, per thread
    nonePut        \* history: sentinels put by main, per queue

\* no call of __next__ yet
NoCall == [stopped |-> FALSE, status |-> 0, outcome |-> "none", docs |-> <<>>]

readerVars == <<doaj, reader_start, pollFails, doajFails, readerLog>>
mainVars == <<dpc, page, articles, idx>>
queueVars == <<source, sink>>
workerVars == <<wpc, wtask>>
counterVars == <<cpc, ctask, clocals, cread>>
sharedVars == <<authors, departments, journals>>
histVars == <<fetched, forwarded, dropped, requeued, folded, noneGot, nonePut>>
vars == <<readerVars, mainVars, queueVars, workerVars, counterVars, sharedVars,
          files, histVars>>

Init ==
    /\ doaj \in DoajDatabases
    /\ reader_start = 0
    /\ pollFails = 0
    /\ doajFails = 0
    /\ readerLog = NoCall
    /\ dpc = "next"
    /\ page = 0
    /\ articles = <<>>
    /\ idx = 0
    /\ source = NewQueue
    /\ sink = NewQueue
    /\ wpc = [w \in Workers |-> "get"]
    /\ wtask = [w \in Workers |-> None]
    /\ cpc = [c \in CounterThreads |-> "get"]
    /\ ctask = [c \in CounterThreads |-> None]
    /\ clocals = [c \in CounterThreads |-> NoLocals]
    /\ cread = [c \in CounterThreads |-> <<>>]
    /\ authors = <<>>
    /\ departments = <<>>
    /\ journals = <<>>
    /\ files = <<>>
    /\ fetched = <<>>
    /\ forwarded = <<>>
    /\ dropped = <<>>
    /\ requeued = <<>>
    /\ folded = <<>>
    /\ noneGot = [validators |-> [w \in Workers |-> 0],
                  counters |-> [c \in CounterThreads |-> 0]]
    /\ nonePut = [source |-> 0, sink |-> 0]

\* history maps are functions from article_id, grown as ids appear
Bump(h, id) == IF id \in DOMAIN h THEN [h EXCEPT ![id] = @ + 1] ELSE h @@ (id :> 1)
Times(h, id) == IF id \in DOMAIN h THEN h[id] ELSE 0

\* ------------------------------------------------------------ main thread
\* PLOSAPIReader.__next__ on an answer (status, docs): the new _start and
\* what the call does: "return" docs, "return" [] or "raise" StopIteration
\* mutant: _start is advanced whatever the status
ReaderNextAdvanceOnFail(start, status, docs) ==
    IF status = 200
    THEN [start |-> start + ReaderStep,
          outcome |-> IF docs = <<>> THEN "raise" ELSE "return",
          docs |-> docs]
    ELSE [start |-> start + ReaderStep, outcome |-> "return", docs |-> <<>>]

\* mutant: a 429 answer ends the iteration
ReaderNextStopOnThrottle(start, status, docs) ==
    IF status = 200
    THEN [start |-> start + ReaderStep,
          outcome |-> IF docs = <<>> THEN "raise" ELSE "return",
          docs |-> docs]
    ELSE [start |-> start,
          outcome |-> IF status = 429 THEN "raise" ELSE "return",
          docs |-> <<>>]

ReaderNext(start, status, docs) ==
    IF status = 200
    THEN [start |-> start + ReaderStep,
          outcome |-> IF docs = <<>> THEN "raise" ELSE "return",
          docs |-> docs]
    ELSE [start |-> start, outcome |-> "return", docs |-> <<>>]

\* the log after a call answered `status` with result r; stopped says that
\* an earlier call raised StopIteration
LogCall(log, status, r) ==
    [stopped |-> log.stopped \/ log.outcome = "raise",
     status |-> status, outcome |-> r.outcome, docs |-> r.docs]

\* for articles in reader: one call of next(reader)
MainNext ==
    /\ dpc = "next"
    /\ \E status \in StatusCodes, docs \in Batches \union {<<>>} :
         /\ status # 200 => pollFails < MaxFail /\ docs = <<>>
         /\ docs # <<>> => Cardinality(DOMAIN fetched) + Len(docs) <= MaxRecords
         /\ LET r == ReaderNext(reader_start, status, docs)
            IN  /\ reader_start' = r.start
                /\ pollFails' = IF status # 200 THEN pollFails + 1 ELSE 0
                /\ readerLog' = LogCall(readerLog, status, r)
                /\ IF r.outcome = "raise"
                   THEN /\ dpc' = "join"
                        /\ UNCHANGED <<articles, idx>>
                   ELSE IF r.docs # <<>>
                   THEN /\ dpc' = "put"
                        /\ articles' = r.docs
                        /\ idx' = 0
                   ELSE /\ dpc' = "next"
                        /\ UNCHANGED <<articles, idx>>
    /\ UNCHANGED <<doaj, doajFails, page, queueVars, workerVars, counterVars,
                   sharedVars, files, histVars>>

\* source.put((page + idx, article)), and page += 100 after the last one
MainPut ==
    /\ dpc = "put"
    /\ LET task == <<page + idx, articles[idx + 1]>>
       IN  /\ source' = QPut(source, task)
           /\ fetched' = fetched @@ (task[1] :> task[2])
    /\ IF idx + 1 < Len(articles)
       THEN /\ idx' = idx + 1
            /\ UNCHANGED <<dpc, page, articles>>
       ELSE /\ page' = page + PageStep
            /\ dpc' = "next"
            /\ idx' = 0
            /\ articles' = <<>>
    /\ UNCHANGED <<readerVars, sink, workerVars, counterVars, sharedVars, files,
                   forwarded, dropped, requeued, folded, noneGot, nonePut>>

\* mutant: main does not wait for the source queue
MainJoinSkip ==
    /\ dpc = "join"
    /\ dpc' = "stop_workers"
    /\ idx' = 0
    /\ UNCHANGED <<readerVars, page, articles, queueVars, workerVars, counterVars,
                   sharedVars, files, histVars>>

\* source.join()
MainJoin ==
    /\ dpc = "join"
    /\ QJoinReturns(source)
    /\ dpc' = "stop_workers"
    /\ idx' = 0
    /\ UNCHANGED <<readerVars, page, articles, queueVars, workerVars, counterVars,
                   sharedVars, files, histVars>>

\* mutant: a single sentinel for the whole DOAJValidator pool
MainStopWorkersOnce ==
    /\ dpc = "stop_workers"
    /\ source' = QPut(source, None)
    /\ nonePut' = [nonePut EXCEPT !.source = @ + 1]
    /\ idx' = 0
    /\ dpc' = "join_workers"
    /\ UNCHANGED <<readerVars, page, articles, sink, workerVars, counterVars,
                   sharedVars, files, fetched, forwarded, dropped, requeued, folded, noneGot>>

\* for i in range(nb_workers): source.put(None)
MainStopWorkers ==
    /\ dpc = "stop_workers"
    /\ source' = QPut(source, None)
    /\ nonePut' = [nonePut EXCEPT !.source = @ + 1]
    /\ IF idx + 1 < nb_workers
       THEN idx' = idx + 1 /\ UNCHANGED dpc
       ELSE idx' = 0 /\ dpc' = "join_workers"
    /\ UNCHANGED <<readerVars, page, articles, sink, workerVars, counterVars,
                   sharedVars, files, fetched, forwarded, dropped, requeued, folded, noneGot>>

\* mutant: only one thread of the pool is joined
AllExitedAny(pcs) == \E t \in DOMAIN pcs : pcs[t] = "exit"

AllExited(pcs) == \A t \in DOMAIN pcs : pcs[t] = "exit"

\* for worker in workers: worker.join()
MainJoinWorkers ==
    /\ dpc = "join_workers"
    /\ AllExited(wpc)
    /\ dpc' = "stop_counters"
    /\ UNCHANGED <<readerVars, page, articles, idx, queueVars, workerVars,
                   counterVars, sharedVars, files, histVars>>

\* mutant: a single sentinel for the whole Counters pool
MainStopCountersOnce ==
    /\ dpc = "stop_counters"
    /\ sink' = QPut(sink, None)
    /\ nonePut' = [nonePut EXCEPT !.sink = @ + 1]
    /\ idx' = 0
    /\ dpc' = "join_counters"
    /\ UNCHANGED <<readerVars, page, articles, source, workerVars, counterVars,
                   sharedVars, files, fetched, forwarded, dropped, requeued, folded, noneGot>>

\* for i in range(nb_counters): sink.put(None)
MainStopCounters ==
    /\ dpc = "stop_counters"
    /\ sink' = QPut(sink, None)
    /\ nonePut' = [nonePut EXCEPT !.sink = @ + 1]
    /\ IF idx + 1 < nb_counters
       THEN idx' = idx + 1 /\ UNCHANGED dpc
       ELSE idx' = 0 /\ dpc' = "join_counters"
    /\ UNCHANGED <<readerVars, page, articles, source, workerVars, counterVars,
                   sharedVars, files, fetched, forwarded, dropped, requeued, folded, noneGot>>

\* mutant: the csv files are written without joining the Counters threads
MainJoinCountersSkip ==
    /\ dpc = "join_counters"
    /\ dpc' = "save_authors"
    /\ UNCHANGED <<readerVars, page, articles, idx, queueVars, workerVars,
                   counterVars, sharedVars, files, histVars>>

\* for counter in counters: counter.join()
MainJoinCounters ==
    /\ dpc = "join_counters"
    /\ AllExited(cpc)
    /\ dpc' = "save_authors"
    /\ UNCHANGED <<readerVars, page, articles, idx, queueVars, workerVars,
                   counterVars, sharedVars, files, histVars>>

\* the three save_csv calls
MainSave ==
    /\ \/ dpc = "save_authors"
          /\ files' = Append(files, save_csv(authors, "authors.csv"))
          /\ dpc' = "save_departments"
       \/ dpc = "save_departments"
          /\ files' = Append(files, save_csv(departments, "departments.csv"))
          /\ dpc' = "save_journals"
       \/ dpc = "save_journals"
          /\ files' = Append(files, save_csv(journals, "journals.csv"))
          /\ dpc' = "done"
    /\ UNCHANGED <<readerVars, page, articles, idx, queueVars, workerVars,
                   counterVars, sharedVars, histVars>>


\* ------------------------------------------------- DOAJValidator threads
\* run: task = self._source.get(); if not task: break
ValidatorGet(w) ==
    /\ wpc[w] = "get"
    /\ source.queue # <<>>
    /\ LET task == Head(source.queue)
       IN  /\ source' = QGet(source)
           /\ IF IsNone(task)
              THEN /\ wpc' = [wpc EXCEPT ![w] = "exit"]
                   /\ noneGot' = [noneGot EXCEPT !.validators[w] = @ + 1]
                   /\ UNCHANGED wtask
              ELSE /\ wpc' = [wpc EXCEPT ![w] = "validate"]
                   /\ wtask' = [wtask EXCEPT ![w] = task]
                   /\ UNCHANGED noneGot
    /\ UNCHANGED <<readerVars, mainVars, sink, counterVars, sharedVars, files,
                   fetched, forwarded, dropped, requeued, folded, nonePut>>

\* run: self.validate_and_link(task), the answer of the secondary API drawn
\* here; a non-200 answer is possible while the failure budget lasts
ValidatorValidate(w) ==
    /\ wpc[w] = "validate"
    /\ \E status \in StatusCodes :
         /\ status # 200 => doajFails < MaxFail /\ wtask[w][2].id # ""
         /\ LET task == wtask[w]
                doi == task[2].id
                results == IF doi \in DOMAIN doaj THEN doaj[doi] ELSE <<>>
                out == validate_and_link(task, status, results)
            IN  /\ sink' = IF out.sink # <<>> THEN QPut(sink, out.sink[1]) ELSE sink
                /\ source' = IF out.source # <<>> THEN QPut(source, out.source[1])
                             ELSE source
                /\ forwarded' = IF out.sink # <<>> THEN Bump(forwarded, task[1])
                                ELSE forwarded
                /\ dropped' = IF out.sink = <<>> /\ out.source = <<>>
                              THEN Bump(dropped, task[1]) ELSE dropped
                /\ requeued' = IF out.source # <<>> THEN Bump(requeued, task[1])
                               ELSE requeued
                /\ doajFails' = IF status # 200 THEN doajFails + 1 ELSE doajFails
    /\ wpc' = [wpc EXCEPT ![w] = "task_done"]
    /\ UNCHANGED <<doaj, reader_start, pollFails, readerLog, mainVars, wtask, counterVars,
                   sharedVars, files, fetched, folded, noneGot, nonePut>>

\* run: self._source.task_done()
ValidatorTaskDone(w) ==
    /\ wpc[w] = "task_done"
    /\ source' = QTaskDone(source)
    /\ wpc' = [wpc EXCEPT ![w] = "get"]
    /\ wtask' = [wtask EXCEPT ![w] = None]
    /\ UNCHANGED <<readerVars, mainVars, sink, counterVars, sharedVars, files,
                   histVars>>

\* ------------------------------------------------------ Counters threads
AfterAuthors(rest) == IF rest = <<>> THEN "departments" ELSE "authors"

\* run: article = self._source.get(); if not article: break; then lines
\* 151-171 of update_counters, which touch nothing shared
CountersGet(c) ==
    /\ cpc[c] = "get"
    /\ sink.queue # <<>>
    /\ LET task == Head(sink.queue)
       IN  /\ sink' = QGet(sink)
           /\ IF IsNone(task)
              THEN /\ cpc' = [cpc EXCEPT ![c] = "exit"]
                   /\ noneGot' = [noneGot EXCEPT !.counters[c] = @ + 1]
                   /\ UNCHANGED <<ctask, clocals, folded>>
              ELSE /\ ctask' = [ctask EXCEPT ![c] = task]
                   /\ clocals' = [clocals EXCEPT ![c] = UpdateCountersLocals(task)]
                   /\ cpc' = [cpc EXCEPT
                                ![c] = AfterAuthors(UpdateCountersLocals(task).authors)]
                   /\ folded' = Bump(folded, task[1])
                   /\ UNCHANGED noneGot
    /\ UNCHANGED <<readerVars, mainVars, source, workerVars, cread, sharedVars,
                   files, fetched, forwarded, dropped, requeued, nonePut>>

\* self._authors.update(authors): for each elem, read self.get(elem, 0) ...
CountersAuthorsRead(c) ==
    /\ cpc[c] = "authors"
    /\ cread[c] = <<>>
    /\ cread' = [cread EXCEPT ![c] = <<CounterGet(authors, Head(clocals[c].authors))>>]
    /\ UNCHANGED <<readerVars, mainVars, queueVars, workerVars, cpc, ctask, clocals,
                   sharedVars, files, histVars>>

\* ... and store self[elem] = that + 1; no lock is held between the two
CountersAuthorsWrite(c) ==
    /\ cpc[c] = "authors"
    /\ cread[c] # <<>>
    /\ authors' = CounterSet(authors, Head(clocals[c].authors), cread[c][1] + 1)
    /\ cread' = [cread EXCEPT ![c] = <<>>]
    /\ clocals' = [clocals EXCEPT ![c].authors = Tail(@)]
    /\ cpc' = [cpc EXCEPT ![c] = AfterAuthors(Tail(clocals[c].authors))]
    /\ UNCHANGED <<readerVars, mainVars, queueVars, workerVars, ctask, departments,
                   journals, files, histVars>>

\* self._departments.update(departments): `departments` is the module-level
\* Counter, the very object self._departments is; the local list deps is
\* not used
CountersDepartments(c) ==
    /\ cpc[c] = "departments"
    /\ departments' = IF departments # <<>> THEN CounterUpdateSelf(departments)
                      ELSE departments
    /\ cpc' = [cpc EXCEPT ![c] = "journals"]
    /\ UNCHANGED <<readerVars, mainVars, queueVars, workerVars, ctask, clocals,
                   cread, authors, journals, files, histVars>>

\* self._journals.update(journals), read ...
CountersJournalsRead(c) ==
    /\ cpc[c] = "journals"
    /\ cread[c] = <<>>
    /\ cread' = [cread EXCEPT ![c] = <<CounterGet(journals, Head(clocals[c].journals))>>]
    /\ UNCHANGED <<readerVars, mainVars, queueVars, workerVars, cpc, ctask, clocals,
                   sharedVars, files, histVars>>

\* ... and store
CountersJournalsWrite(c) ==
    /\ cpc[c] = "journals"
    /\ cread[c] # <<>>
    /\ journals' = CounterSet(journals, Head(clocals[c].journals), cread[c][1] + 1)
    /\ cread' = [cread EXCEPT ![c] = <<>>]
    /\ clocals' = [clocals EXCEPT ![c] = NoLocals]
    /\ cpc' = [cpc EXCEPT ![c] = "task_done"]
    /\ UNCHANGED <<readerVars, mainVars, queueVars, workerVars, ctask, authors,
                   departments, files, histVars>>

\* run: self._source.task_done()
CountersTaskDone(c) ==
    /\ cpc[c] = "task_done"
    /\ sink' = QTaskDone(sink)
    /\ cpc' = [cpc EXCEPT ![c] = "get"]
    /\ ctask' = [ctask EXCEPT ![c] = None]
    /\ UNCHANGED <<readerVars, mainVars, source, workerVars, clocals, cread,
                   sharedVars, files, histVars>>

\* ---------------------------------------------------------- specification
Main ==
    \/ MainNext
    \/ MainPut
    \/ MainJoin
    \/ MainStopWorkers
    \/ MainJoinWorkers
    \/ MainStopCounters
    \/ MainJoinCounters
    \/ MainSave

Validator(w) ==
    \/ ValidatorGet(w)
    \/ ValidatorValidate(w)
    \/ ValidatorTaskDone(w)

Counters(c) ==
    \/ CountersGet(c)
    \/ CountersAuthorsRead(c)
    \/ CountersAuthorsWrite(c)
    \/ CountersDepartments(c)
    \/ CountersJournalsRead(c)
    \/ CountersJournalsWrite(c)
    \/ CountersTaskDone(c)

Next ==
    \/ Main
    \/ \E w \in Workers : Validator(w)
    \/ \E c \in CounterThreads : Counters(c)

Spec == Init /\ [][Next]_vars

\* every thread that can take a step eventually takes one
FairSpec ==
    /\ Spec
    /\ WF_vars(Main)
    /\ \A w \in Workers : WF_vars(Validator(w))
    /\ \A c \in CounterThreads : WF_vars(Counters(c))


\* PLOSAPIReader driven on its own: next(reader) called again and again,
\* also after it raised StopIteration
ReaderCall ==
    /\ \E status \in StatusCodes, docs \in Batches \union {<<>>} :
         /\ status # 200 => pollFails < MaxFail /\ docs = <<>>
         /\ status = 200 => reader_start < MaxCalls * ReaderStep
         /\ LET r == ReaderNext(reader_start, status, docs)
            IN  /\ reader_start' = r.start
                /\ pollFails' = IF status # 200 THEN pollFails + 1 ELSE 0
                /\ readerLog' = LogCall(readerLog, status, r)
    /\ UNCHANGED <<doaj, doajFails, mainVars, queueVars, workerVars, counterVars,
                   sharedVars, files, histVars>>

ReaderSpec == Init /\ [][ReaderCall]_vars

\* save_csv driven on its own: main is about to write the files, all
\* threads have exited, and the authors and journals counters hold up to
\* three entries each with counts up to MaxCount
ReportKeys == { <<"k1", "j1", "d1">>, <<"k2", "j1", "d1">>, <<"", "j2", "d2">> }

CounterSamples ==
    { c \in UNION { [1..n -> ReportKeys \X (1..MaxCount)] : n \in 0..Cardinality(ReportKeys) } :
        \A i, j \in DOMAIN c : i # j => c[i][1] # c[j][1] }

ReportInit ==
    /\ doaj \in DoajDatabases
    /\ reader_start = 0
    /\ pollFails = 0
    /\ doajFails = 0
    /\ readerLog = NoCall
    /\ dpc = "save_authors"
    /\ page = 0
    /\ articles = <<>>
    /\ idx = 0
    /\ source = NewQueue
    /\ sink = NewQueue
    /\ wpc = [w \in Workers |-> "exit"]
    /\ wtask = [w \in Workers |-> None]
    /\ cpc = [c \in CounterThreads |-> "exit"]
    /\ ctask = [c \in CounterThreads |-> None]
    /\ clocals = [c \in CounterThreads |-> NoLocals]
    /\ cread = [c \in CounterThreads |-> <<>>]
    /\ authors \in CounterSamples
    /\ departments = <<>>
    /\ journals \in CounterSamples
    /\ files = <<>>
    /\ fetched = <<>>
    /\ forwarded = <<>>
    /\ dropped = <<>>
    /\ requeued = <<>>
    /\ folded = <<>>
    /\ noneGot = [validators |-> [w \in Workers |-> 1],
                  counters |-> [c \in CounterThreads |-> 1]]
    /\ nonePut = [source |-> nb_workers, sink |-> nb_counters]

ReportSpec == ReportInit /\ [][MainSave]_vars

\* ------------------------------------------------------- what claims read
WorkItems(q) == Cardinality({ i \in 1..Len(q.queue) : ~IsNone(q.queue[i]) })
Nones(q) == Cardinality({ i \in 1..Len(q.queue) : IsNone(q.queue[i]) })
Busy(pcs) == Cardinality({ t \in DOMAIN pcs : pcs[t] \notin {"get", "exit"} })

RECURSIVE SeqSum(_)
SeqSum(seq) == IF seq = <<>> THEN 0 ELSE seq[1] + SeqSum(Tail(seq))

ValidatorsExited == \A w \in Workers : wpc[w] = "exit"
CountersExited == \A c \in CounterThreads : cpc[c] = "exit"
JoinReturned == dpc \notin {"next", "put", "join"}
SavePhase == dpc \in {"save_authors", "save_departments", "save_journals", "done"}

\* the article has an id and the secondary API holds a match for it
Resolvable(article) ==
    /\ article.id # ""
    /\ article.id \in DOMAIN doaj
    /\ doaj[article.id] # <<>>

\* the three key lists of a fetched, resolvable article once enriched
ExpectedLocals(id) ==
    LET article == fetched[id]
        doaj_article == doaj[article.id][1]
    IN  UpdateCountersLocals(<<id, [article EXCEPT !.doaj_id = doaj_article.id,
                                    !.doaj_authors = doaj_article.bibjson.author]>>)

RECURSIVE ExpectedTotal(_, _)
ExpectedTotal(ids, list) ==
    IF ids = {} THEN 0
    ELSE LET id == CHOOSE x \in ids : TRUE
         IN  Len(ExpectedLocals(id)[list]) + ExpectedTotal(ids \ {id}, list)

SomeRequeued == \E id \in DOMAIN requeued : requeued[id] >= 1

\* ------------------------------------------------------------------ C1
AllResolvableForwardedOnce ==
    \A id \in DOMAIN fetched :
        Resolvable(fetched[id]) => Times(forwarded, id) = 1

\* C1: with an API that answers 200 after finitely many failures and fair
\* threads, every fetched article that has an id and a match is eventually
\* put on the sink, and no article is ever put there twice
NoLossUnderThrottling ==
    /\ [](\A id \in DOMAIN fetched : Times(forwarded, id) <= 1)
    /\ <>[]AllResolvableForwardedOnce

\* an article was put back on the source and later put on the sink
RequeuedThenForwarded ==
    \E id \in DOMAIN requeued : requeued[id] >= 1 /\ Times(forwarded, id) = 1

\* ------------------------------------------------------------------ C2
\* C2: once main waits in source.join(), the join eventually returns,
\* whatever was requeued
JoinConverges == (dpc = "join") ~> (dpc = "stop_workers")

\* join has just returned in a run where something was requeued
JoinReturnedAfterRequeue ==
    dpc = "stop_workers" /\ nonePut.source = 0 /\ SomeRequeued

\* ------------------------------------------------------------------ C3
\* C3: no article is put on the sink more than once, and none is both
\* skipped and put on the sink
ForwardedAtMostOnceNeverWithDrop ==
    \A id \in DOMAIN fetched :
        /\ Times(forwarded, id) <= 1
        /\ ~(Times(dropped, id) >= 1 /\ Times(forwarded, id) >= 1)

\* one article requeued and then forwarded, another one skipped
ForwardedAndDroppedAfterRequeue ==
    /\ RequeuedThenForwarded
    /\ \E id \in DOMAIN dropped : dropped[id] = 1

\* ------------------------------------------------------------------ C4
\* C4: the pending count of the source is never zero while a work item is
\* queued or held by a validator, and once join has returned no work item
\* is queued, no validator holds one, and every fetched article was either
\* skipped or put on the sink
JoinBarrierSafety ==
    /\ source.unfinished_tasks = 0 => WorkItems(source) = 0 /\ Busy(wpc) = 0
    /\ JoinReturned =>
         /\ WorkItems(source) = 0
         /\ Busy(wpc) = 0
         /\ \A id \in DOMAIN fetched :
                Times(dropped, id) + Times(forwarded, id) = 1

\* join has just returned with every article served, one of them requeued
JoinReturnedAllSettled ==
    /\ dpc = "stop_workers"
    /\ nonePut.source = 0
    /\ Cardinality(DOMAIN fetched) = MaxRecords
    /\ RequeuedThenForwarded

\* ------------------------------------------------------------------ C5
\* C5: main puts one None per thread on each queue, a thread has exited
\* exactly when it has dequeued its one None, and every None main put is
\* either still queued or was dequeued by a thread of that queue's pool
SentinelProtocol ==
    /\ nonePut.source <= nb_workers
    /\ nonePut.sink <= nb_counters
    /\ dpc \notin {"next", "put", "join", "stop_workers"} => nonePut.source = nb_workers
    /\ SavePhase \/ dpc = "join_counters" => nonePut.sink = nb_counters
    /\ \A w \in Workers :
         noneGot.validators[w] = IF wpc[w] = "exit" THEN 1 ELSE 0
    /\ \A c \in CounterThreads :
         noneGot.counters[c] = IF cpc[c] = "exit" THEN 1 ELSE 0
    /\ Nones(source) + SeqSum(noneGot.validators) = nonePut.source
    /\ Nones(sink) + SeqSum(noneGot.counters) = nonePut.sink

\* both pools stopped by their sentinels
AllStoppedBySentinels ==
    /\ ValidatorsExited
    /\ CountersExited
    /\ nonePut = [source |-> nb_workers, sink |-> nb_counters]
    /\ source.queue = <<>>
    /\ sink.queue = <<>>

\* ------------------------------------------------------------------ C6
\* C6: a None is put on the source only when the reader is exhausted and
\* every work item is done; a None is put on the sink only when every
\* validator has exited; a csv file is written only when every Counters
\* thread has exited
PhaseOrdering ==
    /\ [][nonePut'.source > nonePut.source =>
            /\ dpc \notin {"next", "put"}
            /\ articles = <<>>
            /\ WorkItems(source) = 0
            /\ Busy(wpc) = 0]_vars
    /\ [][nonePut'.sink > nonePut.sink => ValidatorsExited]_vars
    /\ [][Len(files') > Len(files) => CountersExited]_vars

\* the first csv file is written in a run that forwarded an article
FirstFileWritten ==
    /\ Len(files) = 1
    /\ \E id \in DOMAIN forwarded : forwarded[id] = 1

\* ------------------------------------------------------------------ C7
RunEnded ==
    /\ dpc = "done"
    /\ ValidatorsExited
    /\ CountersExited
    /\ Len(files) = 3

\* C7: the run reaches its end: all threads exited, three files written
RunTerminates == <>RunEnded

\* the run ended although one article was requeued and one was skipped
RunEndedDespiteRequeueAndDrop ==
    /\ RunEnded
    /\ SomeRequeued
    /\ \E id \in DOMAIN dropped : dropped[id] = 1

\* ------------------------------------------------------------------ C8
\* C8: update_counters is begun at most once per article and only for an
\* article put on the sink; when main writes the files every article put
\* on the sink has been folded, the sink is empty, every Counters thread
\* has exited, and the three Counter objects no longer change
FoldedOnceBeforeReports ==
    /\ [](\A id \in DOMAIN folded :
              folded[id] = 1 /\ Times(forwarded, id) = 1)
    /\ [](SavePhase =>
              /\ sink.queue = <<>>
              /\ CountersExited
              /\ \A id \in DOMAIN forwarded : Times(folded, id) = 1)
    /\ [][SavePhase => UNCHANGED <<authors, departments, journals>>]_vars

\* main is about to write the first file after two articles were folded
TwoFoldedBeforeReports ==
    /\ dpc = "save_authors"
    /\ Cardinality(DOMAIN folded) = 2

\* ------------------------------------------------------------------ C9
\* C9: at the end of the run the authors and journals counters hold one
\* count per key occurrence of the articles put on the sink, as a single
\* sequential fold would leave them
NoLostUpdates ==
    dpc = "done" =>
        /\ CounterTotal(authors) = ExpectedTotal(DOMAIN forwarded, "authors")
        /\ CounterTotal(journals) = ExpectedTotal(DOMAIN forwarded, "journals")

\* ----------------------------------------------------------------- C10
\* C10: at the end of the run the departments counter's total is the
\* number of author entries with an affiliation among the articles put on
\* the sink, and it is empty only if there are none
DepartmentsCounted ==
    dpc = "done" =>
        /\ CounterTotal(departments) = ExpectedTotal(DOMAIN forwarded, "deps")
        /\ departments = <<>> => ExpectedTotal(DOMAIN forwarded, "deps") = 0


\* ----------------------------------------------------------------- C15
\* C15: once a call of __next__ has raised StopIteration, every later call
\* raises it too
StopIterationIsPermanent == readerLog.stopped => readerLog.outcome = "raise"

\* ----------------------------------------------------------------- C16
\* C16: a poll answered with a non-200 status returns [], leaves _start,
\* page and the source queue as they were and keeps main polling; so
\* between polls the reader's cursor equals main's page base
FailedPollChangesNothing ==
    /\ [][MainNext /\ readerLog'.status # 200 =>
            /\ readerLog'.outcome = "return"
            /\ readerLog'.docs = <<>>
            /\ reader_start' = reader_start
            /\ page' = page
            /\ source' = source
            /\ fetched' = fetched
            /\ dpc' = "next"]_vars
    /\ [](dpc = "next" => reader_start = page)

\* a poll has just failed after the first page was served
FailedPollAfterFirstPage ==
    /\ dpc = "next"
    /\ pollFails = 1
    /\ readerLog.status # 200
    /\ reader_start = ReaderStep
    /\ page = PageStep

\* ----------------------------------------------------------------- C17
\* C17 as stated: a call of __next__ never returns on a 429 answer
ThrottledCallDoesNotReturn ==
    readerLog.outcome = "return" => readerLog.status # 429

\* C17 as amended: a poll answered 429 returns [] at once, with _start not
\* advanced and the iteration not ended; the same cursor is asked again by
\* main's next poll
ThrottledCallReturnsEmpty ==
    [][MainNext /\ readerLog'.status = 429 =>
            /\ readerLog'.outcome = "return"
            /\ readerLog'.docs = <<>>
            /\ reader_start' = reader_start
            /\ dpc' = "next"]_vars

\* a call has just returned on a 429 answer
ThrottledCallReturned ==
    /\ readerLog.status = 429
    /\ readerLog.outcome = "return"
    /\ dpc = "next"


\* ----------------------------------------------------------------- C11
\* the article of a forwarded id as validate_and_link leaves it
EnrichedArticle(id) ==
    [fetched[id] EXCEPT !.doaj_id = doaj[fetched[id].id][1].id,
                        !.doaj_authors = doaj[fetched[id].id][1].bibjson.author]

\* the author keys the rule of C11 gives for an enriched article
ClaimedAuthorKeys(article) ==
    IF article.doaj_authors # <<>>
    THEN LET named == SelectSeq(article.doaj_authors, LAMBDA a : a.name # "")
         IN  [i \in 1..Len(named) |-> <<named[i].name, article.doaj_id, article.id>>]
    ELSE [i \in 1..Len(article.author_display) |->
            <<article.author_display[i], article.doaj_id, article.id>>]

RECURSIVE ClaimedAuthorCount(_, _)
ClaimedAuthorCount(ids, key) ==
    IF ids = {} THEN 0
    ELSE LET id == CHOOSE x \in ids : TRUE
             keys == ClaimedAuthorKeys(EnrichedArticle(id))
         IN  Cardinality({ i \in 1..Len(keys) : keys[i] = key })
             + ClaimedAuthorCount(ids \ {id}, key)

\* C11: at the end of the run every author key's count is the number of
\* times the rule yields it over the articles put on the sink: enriched
\* entries with a name if there are enriched entries, else author_display
AuthorsFollowRule ==
    dpc = "done" =>
        /\ \A i \in 1..Len(authors) :
             authors[i][2] = ClaimedAuthorCount(DOMAIN forwarded, authors[i][1])
        /\ \A id \in DOMAIN forwarded :
             \A k \in 1..Len(ClaimedAuthorKeys(EnrichedArticle(id))) :
                HasKey(authors, ClaimedAuthorKeys(EnrichedArticle(id))[k])

\* ----------------------------------------------------------------- C12
\* C12: no counter holds an entry whose name part is missing or empty
NoEmptyKey ==
    /\ \A i \in 1..Len(authors) : authors[i][1][1] # ""
    /\ \A i \in 1..Len(departments) : departments[i][1][1] # ""
    /\ \A i \in 1..Len(journals) : journals[i][1][1] # ""

\* ----------------------------------------------------------------- C13
CounterOf(filename) ==
    IF filename = "authors.csv" THEN authors
    ELSE IF filename = "departments.csv" THEN departments ELSE journals

\* C13: the rows of every file are in non-increasing order of count, and
\* rows of equal count are in the order their keys entered the counter
RowsRanked ==
    \A f \in 1..Len(files) :
        LET rows == files[f].rows
            counter == CounterOf(files[f].filename)
        IN  \A i, j \in 1..Len(rows) :
              i < j =>
                /\ rows[i][4] >= rows[j][4]
                /\ rows[i][4] = rows[j][4] =>
                     KeyIndex(counter, SubSeq(rows[i], 1, 3))
                       < KeyIndex(counter, SubSeq(rows[j], 1, 3))

\* authors.csv written from a counter whose first entry has the smallest
\* count and whose other two entries tie
RankedWithTieWritten ==
    /\ Len(files) >= 1
    /\ Len(authors) = 3
    /\ authors[1][2] < authors[2][2]
    /\ authors[2][2] = authors[3][2]
    /\ Len(files[1].rows) = 3

\* ----------------------------------------------------------------- C14
\* C14: the rows of every file are exactly the counter's entries whose
\* name part is not empty
ReportSkipsEmptyKeys ==
    \A f \in 1..Len(files) :
        LET rows == files[f].rows
            counter == CounterOf(files[f].filename)
        IN  /\ \A i \in 1..Len(rows) : rows[i][1] # ""
            /\ Len(rows) = Cardinality({ i \in 1..Len(counter) : counter[i][1][1] # "" })


\* ----------------------------------------------------------------- C18
\* C18: a validator step on a non-200 answer appends the very task it
\* holds, the article as main put it, to the source queue and raises the
\* pending count by one; it puts nothing on the sink and skips nothing; the
\* task_done that follows lowers the pending count by one
RequeueIsNeutral ==
    /\ [][\A w \in Workers :
            ValidatorValidate(w) /\ doajFails' > doajFails =>
              /\ source'.queue = Append(source.queue, wtask[w])
              /\ wtask[w][2] = fetched[wtask[w][1]]
              /\ source'.unfinished_tasks = source.unfinished_tasks + 1
              /\ sink' = sink
              /\ dropped' = dropped
              /\ forwarded' = forwarded
              /\ wpc'[w] = "task_done"]_vars
    /\ [][\A w \in Workers :
            wpc[w] = "task_done" /\ wpc'[w] = "get" =>
              /\ source'.unfinished_tasks = source.unfinished_tasks - 1
              /\ source'.queue = source.queue]_vars

\* a validator has put its task back and has not yet called task_done
RequeuedAwaitingTaskDone ==
    \E w \in Workers :
        /\ wpc[w] = "task_done"
        /\ source.queue # <<>>
        /\ source.queue[Len(source.queue)] = wtask[w]
        /\ Times(requeued, wtask[w][1]) >= 1

\* ----------------------------------------------------------------- C19
NoIdOrNoMatch(article) ==
    \/ article.id = ""
    \/ article.id \in DOMAIN doaj /\ doaj[article.id] = <<>>

AllCountersEmpty == authors = <<>> /\ departments = <<>> /\ journals = <<>>

\* C19: a validator step on an article without id, or on a 200 answer
\* without results, skips the article: nothing is put on either queue and
\* task_done follows; without id the outcome does not depend on any
\* answer; a skipped article is never folded and no counter key carries
\* its id; and a run in which no fetched article has a match ends with
\* empty counters and empty files
DropPaths ==
    /\ [][\A w \in Workers :
            /\ ValidatorValidate(w)
            /\ doajFails' = doajFails
            /\ NoIdOrNoMatch(wtask[w][2])
            => /\ source' = source
               /\ sink' = sink
               /\ Times(dropped', wtask[w][1]) = 1
               /\ wpc'[w] = "task_done"]_vars
    /\ [](\A w \in Workers :
            wpc[w] = "validate" /\ wtask[w][2].id = "" =>
              \A status \in StatusCodes, db \in DoajDatabases, doi \in Dois :
                 validate_and_link(wtask[w], status, db[doi])
                   = [sink |-> <<>>, source |-> <<>>])
    /\ [](\A id \in DOMAIN dropped :
            /\ Times(forwarded, id) = 0
            /\ Times(folded, id) = 0
            /\ \A i \in 1..Len(authors) : authors[i][1][3] # fetched[id].id
            /\ \A i \in 1..Len(journals) : journals[i][1][3] # fetched[id].id
            /\ \A i \in 1..Len(departments) : departments[i][1][3] # fetched[id].id)
    /\ [](dpc = "done" /\ (\A id \in DOMAIN fetched : ~Resolvable(fetched[id])) =>
            /\ AllCountersEmpty
            /\ \A f \in 1..Len(files) : files[f].rows = <<>>)

\* a run that fetched an article with an id and found no match for any
\* article has ended with empty counters and three empty files
NoMatchRunEndedEmpty ==
    /\ dpc = "done"
    /\ \E id \in DOMAIN dropped : fetched[id].id # ""
    /\ \A id \in DOMAIN fetched : ~Resolvable(fetched[id])
    /\ AllCountersEmpty
    /\ Len(files) = 3

\* ----------------------------------------------------------------- C20
NonesLast(q) ==
    \A i, j \in 1..Len(q.queue) : i < j /\ IsNone(q.queue[i]) => IsNone(q.queue[j])

\* C20: no work item is behind a None in either queue; once main has put
\* a None on the source nothing is fetched or requeued any more, once it
\* has put one on the sink nothing is forwarded any more; and a pool that
\* has exited leaves no work item in its queue
NoWorkBehindSentinel ==
    /\ [](NonesLast(source) /\ NonesLast(sink))
    /\ [][nonePut.source > 0 => fetched' = fetched /\ requeued' = requeued]_vars
    /\ [][nonePut.sink > 0 => forwarded' = forwarded]_vars
    /\ [](ValidatorsExited => WorkItems(source) = 0)
    /\ [](CountersExited => WorkItems(sink) = 0)

\* the first None is on the source in a run where a task was requeued and
\* an article forwarded
FirstSentinelAfterRequeue ==
    /\ nonePut.source = 1
    /\ SomeRequeued
    /\ \E id \in DOMAIN forwarded : forwarded[id] = 1

====
